---------------------------- MODULE Spec2Model ----------------------------
(***************************************************************************)
(* Complexity scoring and filtering of a newline-delimited JSON dataset.   *)
(*                                                                         *)
(* Two variants of one pipeline are modelled:                              *)
(*   "single"  Complexity/Complex-comp.py            (one text field)      *)
(*   "multi"   Complexity/.ipynb_checkpoints/                              *)
(*             Complex-Sharegpt-checkpoint.py        (list of turns)       *)
(* The scorer analyze_complexity and the orchestrator process_jsonl are    *)
(* the same code in both files; process_line differs.                      *)
(***************************************************************************)
EXTENDS Integers, Sequences, FiniteSets, TLC

VARIABLES
    \* --- one call of analyze_complexity, sentence by sentence
    doc,                \* nlp(text): the sentences of the text being scored
    si,                 \* number of sentences the for-loop has scanned
    analysis,           \* the analysis dict being accumulated
    spc,                \* "idle" | "loop" | "returned"
    \* --- one run of main / process_jsonl
    mode,               \* "single" | "multi": which variant is deployed
    filter_out_complex, \* args.filter
    input_exists,       \* input_path.exists()
    num_workers,        \* args.workers
    lines,              \* the lines of the input file
    main_pc,            \* "start" | "running" | "done" | "startup_error" | "error" | "off"
    total_lines,        \* tqdm total
    next_line,          \* position of f_in: index of the next line to be read
    taskq,              \* chunks of tasks waiting for a worker
    worker,             \* per worker: the chunk it holds (<<>> when idle)
    resq,               \* chunk results delivered to the iterator, in completion order
    cur,                \* rest of the chunk result the main loop is iterating
    f_out,              \* lines written to the output file
    pbar,               \* progress count
    consumed            \* history: per consumed result, the line index and its outcome

scorer_vars == <<doc, si, analysis, spc>>
pipe_vars == <<mode, filter_out_complex, input_exists, num_workers, lines, main_pc,
               total_lines, next_line, taskq, worker, resq, cur, f_out, pbar, consumed>>
vars == <<doc, si, analysis, spc, mode, filter_out_complex, input_exists, num_workers,
          lines, main_pc, total_lines, next_line, taskq, worker, resq, cur, f_out, pbar,
          consumed>>

(***************************************************************************)
(* Program constants.                                                      *)
(***************************************************************************)
MAX_PARTICIPLES == 2
MAX_NESTED_CLAUSES == 2
COMPLEXITY_THRESHOLD == 128
COMPLEXITY_THRESHOLD_SHAREGPT == 64
ANALYZE_FIELD == "text"
CHUNKSIZE == 10

(***************************************************************************)
(* Bounds of the model.                                                    *)
(***************************************************************************)
MaxSents == 3
MaxLines == 21
MaxWorkers == 2

Max(a, b) == IF a >= b THEN a ELSE b

(***************************************************************************)
(* The Annotator's output: a document is a sequence of sentences, a        *)
(* sentence a sequence of tokens, a token a tag_ and a dep_.               *)
(***************************************************************************)
Tok(tag, dep) == [tag_ |-> tag, dep_ |-> dep]

Rep(tok, n) == [i \in 1..n |-> tok]

SentPlain == <<Tok("NN", "nsubj"), Tok("VBZ", "ROOT"), Tok("NN", "dobj")>>
SentPassive == <<Tok("NN", "nsubjpass"), Tok("VBD", "auxpass"), Tok("VBN", "ROOT")>>
SentAuxOnly == <<Tok("NN", "nsubj"), Tok("VBN", "auxpass")>>
SentPart3 == <<Tok("VBG", "ROOT"), Tok("VBG", "advcl"), Tok("VBN", "acl")>>
SentPart4 == <<Tok("VBG", "ROOT"), Tok("VBN", "acl"), Tok("VBN", "acl"), Tok("VBG", "acl"),
               Tok("NN", "dobj")>>
SentClauses3 == <<Tok("VBZ", "ROOT"), Tok("VB", "ccomp"), Tok("VB", "xcomp"), Tok("VBZ", "relcl")>>
SentClauses4 == <<Tok("VB", "advcl"), Tok("VB", "ccomp"), Tok("VB", "xcomp"), Tok("VBZ", "relcl")>>
SentBoth3 == Rep(Tok("VBG", "advcl"), 3)
SentDecoy == <<Tok("VBG", "dobj"), Tok("VBN", "amod"), Tok("VBG", "nsubj"), Tok("NN", "ROOT"),
               Tok("NN", "acl"), Tok("NN", "acl")>>
SentPassiveBoth == <<Tok("VBG", "advcl"), Tok("VBG", "advcl"), Tok("VBG", "advcl"),
                     Tok("NN", "nsubjpass")>>

SampleSentences == {SentPlain, SentPassive, SentAuxOnly, SentPart3, SentPart4, SentClauses3,
                    SentClauses4, SentBoth3, SentDecoy, SentPassiveBoth}

RECURSIVE SeqsUpTo(_, _)
SeqsUpTo(S, n) ==
    IF n = 0 THEN {<<>>}
    ELSE LET shorter == SeqsUpTo(S, n - 1)
         IN shorter \cup {Append(d, s) : d \in shorter, s \in S}

Docs == SeqsUpTo(SampleSentences, MaxSents)

(***************************************************************************)
(* analyze_complexity                                                      *)
(***************************************************************************)
NewAnalysis(n) ==
    [has_passive_voice |-> FALSE,
     max_nested_clauses |-> 0,
     longest_sentence |-> 0,
     num_participle_phrases |-> 0,
     num_sentences |-> n,
     is_complex |-> FALSE,
     reasons |-> <<>>,
     score |-> 0]

PassiveReason == "Contains passive voice"
ParticipleReason(n) == "Too many participle phrases (" \o ToString(n) \o ") in one sentence"
ClauseReason(n) == "Deeply nested clauses (" \o ToString(n) \o ") in one sentence"

IsPassiveToken(t) == t.dep_ \in {"nsubjpass", "auxpass"}

HasPassiveToken(sent) == \E i \in 1..Len(sent) : IsPassiveToken(sent[i])

\* variant: the flag is not consulted, so every sentence with a marker counts
PassiveStepPerSentence(a, sent) ==
    IF HasPassiveToken(sent)
    THEN [a EXCEPT !.reasons = Append(@, PassiveReason),
                   !.has_passive_voice = TRUE,
                   !.score = @ + 1]
    ELSE a

\* for token in sent: if passive dep: (first time only: reason, flag, score) ; break
PassiveStep(a, sent) ==
    IF HasPassiveToken(sent) /\ ~a.has_passive_voice
    THEN [a EXCEPT !.reasons = Append(@, PassiveReason),
                   !.has_passive_voice = TRUE,
                   !.score = @ + 1]
    ELSE a

IsParticipleToken(t) == t.tag_ \in {"VBG", "VBN"} /\ t.dep_ \in {"ROOT", "advcl", "acl"}

IsClauseToken(t) == t.dep_ \in {"ccomp", "xcomp", "advcl", "relcl"}

SentParticiples(sent) == Cardinality({i \in 1..Len(sent) : IsParticipleToken(sent[i])})

SentClauses(sent) == Cardinality({i \in 1..Len(sent) : IsClauseToken(sent[i])})

\* variant: the three fields hold the counts of the last sentence read
MaximaStepLast(a, sent) ==
    [a EXCEPT !.max_nested_clauses = SentClauses(sent),
              !.longest_sentence = Len(sent),
              !.num_participle_phrases = SentParticiples(sent)]

MaximaStep(a, sent) ==
    [a EXCEPT !.max_nested_clauses = Max(@, SentClauses(sent)),
              !.longest_sentence = Max(@, Len(sent)),
              !.num_participle_phrases = Max(@, SentParticiples(sent))]

\* variant: a sentence above the cap adds 1, whatever its count
ParticipleStepAddOne(a, sent) ==
    LET sent_participles == SentParticiples(sent)
    IN IF sent_participles > MAX_PARTICIPLES
       THEN [a EXCEPT !.reasons = Append(@, ParticipleReason(sent_participles)),
                      !.score = @ + 1]
       ELSE a

ParticipleStep(a, sent) ==
    LET sent_participles == SentParticiples(sent)
    IN IF sent_participles > MAX_PARTICIPLES
       THEN [a EXCEPT !.reasons = Append(@, ParticipleReason(sent_participles)),
                      !.score = @ + (sent_participles - MAX_PARTICIPLES)]
       ELSE a

ClauseStep(a, sent) ==
    LET sent_clauses == SentClauses(sent)
    IN IF sent_clauses > MAX_NESTED_CLAUSES
       THEN [a EXCEPT !.reasons = Append(@, ClauseReason(sent_clauses)),
                      !.score = @ + (sent_clauses - MAX_NESTED_CLAUSES)]
       ELSE a

\* variant: the clause check runs before the participle check
ScanSentenceClausesFirst(a, sent) ==
    ParticipleStep(ClauseStep(MaximaStep(PassiveStep(a, sent), sent), sent), sent)

\* one iteration of "for sent in doc.sents"
ScanSentence(a, sent) ==
    ClauseStep(ParticipleStep(MaximaStep(PassiveStep(a, sent), sent), sent), sent)

\* variant: the comparison is not strict
FinishAnalysisNonStrict(a) == [a EXCEPT !.is_complex = a.score >= 0]

FinishAnalysis(a) == [a EXCEPT !.is_complex = a.score > 0]

RECURSIVE ScanAll(_, _, _)
ScanAll(a, d, i) == IF i > Len(d) THEN a ELSE ScanAll(ScanSentence(a, d[i]), d, i + 1)

\* the analysis of an annotated document
AnalyzeDoc(d) == FinishAnalysis(ScanAll(NewAnalysis(Len(d)), d, 1))


(***************************************************************************)
(* The scorer as a state machine: the loop body is one step.               *)
(***************************************************************************)
ScorerIdle ==
    /\ doc = <<>>
    /\ si = 0
    /\ analysis = NewAnalysis(0)
    /\ spc = "idle"

\* analyze_complexity up to the for-loop: the dict literal
ScorerInit ==
    /\ doc \in Docs
    /\ si = 0
    /\ analysis = NewAnalysis(Len(doc))
    /\ spc = "loop"

ScorerScan ==
    /\ spc = "loop"
    /\ si < Len(doc)
    /\ analysis' = ScanSentence(analysis, doc[si + 1])
    /\ si' = si + 1
    /\ UNCHANGED <<doc, spc>>

ScorerReturn ==
    /\ spc = "loop"
    /\ si = Len(doc)
    /\ analysis' = FinishAnalysis(analysis)
    /\ spc' = "returned"
    /\ UNCHANGED <<doc, si>>

(***************************************************************************)
(* Texts and the Annotator (spaCy's nlp): a text is named by what the      *)
(* Annotator makes of it.                                                  *)
(***************************************************************************)
Texts == {"", "plain", "passive", "clauses66", "clauses130", "clauses131"}

nlp(text) ==
    CASE text = "" -> <<>>
      [] text = "plain" -> <<SentPlain, SentDecoy>>
      [] text = "passive" -> <<SentPlain, SentPassive>>
      [] text = "clauses66" -> <<Rep(Tok("VB", "ccomp"), 66)>>
      [] text = "clauses130" -> <<SentPlain, Rep(Tok("VB", "xcomp"), 130)>>
      [] text = "clauses131" -> <<Rep(Tok("VB", "relcl"), 131)>>

AnalysisOfText == [t \in Texts |-> AnalyzeDoc(nlp(t))]

analyze_complexity(text) == AnalysisOfText[text]

(***************************************************************************)
(* JSON: a line either is the serialisation of an object or does not       *)
(* parse.  An object is a function from its keys.                          *)
(***************************************************************************)
json_dumps(obj) == [ok |-> TRUE, obj |-> obj]

MalformedLine == [ok |-> FALSE, raw |-> "{not json"]

HasKey(obj, k) == k \in DOMAIN obj

SetKey(obj, k, v) == [j \in DOMAIN obj \cup {k} |-> IF j = k THEN v ELSE obj[j]]

Returned(obj) == [kind |-> "line", line |-> json_dumps(obj), obj |-> obj]
Skipped(obj) == [kind |-> "none", obj |-> obj]
Raised(exc) == [kind |-> "raise", exc |-> exc]

\* the call has not returned and never will: the Annotator hangs on the text
Hung == [kind |-> "hang"]

\* a text on which nlp(text) does not return
HangingText == "hangs"

AnnotatorHangs(text) == text = HangingText

(***************************************************************************)
(* process_line, single-field variant (Complex-comp.py)                    *)
(***************************************************************************)
StubAnalysis ==
    [is_complex |-> FALSE,
     reasons |-> <<"MISSING FIELD " \o ANALYZE_FIELD>>,
     has_passive_voice |-> FALSE,
     max_nested_clauses |-> 0,
     longest_sentence |-> 0,
     num_participle_phrases |-> 0,
     score |-> 0]

\* variant: an empty field counts as present
FieldPresentKeyOnly(obj) == HasKey(obj, ANALYZE_FIELD)

FieldPresent(obj) == HasKey(obj, ANALYZE_FIELD) /\ obj[ANALYZE_FIELD] /= ""

EmbedComp(obj) ==
    IF FieldPresent(obj)
    THEN SetKey(obj, "complexity_analysis", analyze_complexity(obj[ANALYZE_FIELD]))
    ELSE SetKey(obj, "complexity_analysis", StubAnalysis)

EnrichComp(obj) ==
    LET o1 == EmbedComp(obj)
        complexity_score == o1["complexity_analysis"].score
        o2 == SetKey(o1, "total_complexity_score", complexity_score)
    IN SetKey(o2, "is_complex", complexity_score > COMPLEXITY_THRESHOLD)

\* variant: the threshold itself is filtered too
KeepCompNonStrict(filter, complexity_score) ==
    ~filter \/ complexity_score < COMPLEXITY_THRESHOLD

KeepComp(filter, complexity_score) == ~filter \/ complexity_score <= COMPLEXITY_THRESHOLD

process_line_comp(line, filter) ==
    IF ~line.ok THEN Raised("JSONDecodeError")
    ELSE IF FieldPresent(line.obj) /\ AnnotatorHangs(line.obj[ANALYZE_FIELD]) THEN Hung
    ELSE LET obj == EnrichComp(line.obj)
         IN IF KeepComp(filter, obj["total_complexity_score"])
            THEN Returned(obj)
            ELSE Skipped(obj)

(***************************************************************************)
(* process_line, multi-turn variant (Complex-Sharegpt-checkpoint.py)       *)
(***************************************************************************)
\* variant: the role is not looked at
TurnScoredAnyRole(turn) == turn["value"] /= ""

TurnScored(turn) == turn["from"] \in {"human", "gpt"} /\ turn["value"] /= ""

\* variant: the analysis replaces the turn instead of being set on it
EnrichTurnAnalysisOnly(turn) ==
    IF TurnScored(turn)
    THEN [complexity_analysis |-> analyze_complexity(turn["value"])]
    ELSE turn

EnrichTurn(turn) ==
    IF TurnScored(turn)
    THEN SetKey(turn, "complexity_analysis", analyze_complexity(turn["value"]))
    ELSE turn

\* the for-loop over obj["conversations"]: the turns as left, and the sum
RECURSIVE TurnLoop(_, _, _)
TurnLoop(turns, i, conversation_complexity) ==
    IF i > Len(turns) THEN [turns |-> turns, sum |-> conversation_complexity]
    ELSE LET t == EnrichTurn(turns[i])
         IN TurnLoop([turns EXCEPT ![i] = t], i + 1,
                     IF TurnScored(turns[i])
                     THEN conversation_complexity + t["complexity_analysis"].score
                     ELSE conversation_complexity)

EnrichSharegpt(obj) ==
    IF HasKey(obj, "conversations")
    THEN LET r == TurnLoop(obj["conversations"], 1, 0)
             o1 == SetKey(obj, "conversations", r.turns)
             o2 == SetKey(o1, "total_conversation_complexity", r.sum)
         IN SetKey(o2, "is_complex", r.sum > COMPLEXITY_THRESHOLD_SHAREGPT)
    ELSE obj

\* the for-loop reaches a scored turn on whose value the Annotator hangs
TurnLoopHangs(obj) ==
    /\ HasKey(obj, "conversations")
    /\ \E i \in DOMAIN obj["conversations"] :
           /\ TurnScored(obj["conversations"][i])
           /\ AnnotatorHangs(obj["conversations"][i]["value"])

process_line_sharegpt(line, filter) ==
    IF ~line.ok THEN Raised("JSONDecodeError")
    ELSE IF TurnLoopHangs(line.obj) THEN Hung
    ELSE LET obj == EnrichSharegpt(line.obj)
         IN IF ~filter THEN Returned(obj)
            ELSE IF ~HasKey(obj, "is_complex") THEN Raised("KeyError")
            ELSE IF ~obj["is_complex"] THEN Returned(obj)
            ELSE Skipped(obj)

process_line(m, line, filter) ==
    IF m = "single" THEN process_line_comp(line, filter)
    ELSE process_line_sharegpt(line, filter)

(***************************************************************************)
(* Input files.  A file is a sequence of lines; the well-behaved ones      *)
(* cycle through the sample records of the variant, the others hold one    *)
(* line that makes process_line raise.                                     *)
(***************************************************************************)
Turn(role, value) == [from |-> role, value |-> value]

SingleObjs ==
    <<[id |-> 1, text |-> "clauses130"],
      [id |-> 2],
      [id |-> 3, text |-> "clauses131"],
      [id |-> 4, text |-> ""],
      [id |-> 5, text |-> "passive"],
      [id |-> 6, text |-> "plain"]>>

MultiObjs ==
    <<[id |-> 1, conversations |-> <<Turn("human", "clauses66"), Turn("gpt", "passive")>>],
      [id |-> 2, conversations |-> <<Turn("system", "clauses131"), Turn("human", "clauses66"),
                                     Turn("gpt", ""), Turn("tool", "passive")>>],
      [id |-> 3, conversations |-> <<>>],
      [id |-> 4, conversations |-> <<Turn("human", "plain"), Turn("gpt", "passive"),
                                     Turn("human", "passive")>>],
      [id |-> 5, is_complex |-> TRUE],
      [id |-> 6, conversations |-> <<Turn("gpt", "clauses131")>>]>>

SampleObjs(m) == IF m = "single" THEN SingleObjs ELSE MultiObjs

\* lines on which process_line can raise
BadLines(m) ==
    IF m = "single" THEN {MalformedLine}
    ELSE {MalformedLine, json_dumps([id |-> 7])}

\* n lines cycling through the sample records, starting n records into the cycle
CleanFile(m, n) ==
    [i \in 1..n |-> json_dumps(SampleObjs(m)[((i + n - 1) % Len(SampleObjs(m))) + 1])]

DirtyFile(m, n, p, bad) == [CleanFile(m, n) EXCEPT ![p] = bad]

InputFiles(m) ==
    {CleanFile(m, n) : n \in 0..MaxLines}
    \cup UNION {{DirtyFile(m, n, 1, bad), DirtyFile(m, n, n, bad)} :
                    n \in 1..MaxLines, bad \in BadLines(m)}

\* a line holding a text on which the Annotator hangs
HangLine(m) ==
    IF m = "single" THEN json_dumps([id |-> 8, text |-> HangingText])
    ELSE json_dumps([id |-> 8, conversations |-> <<Turn("human", "plain"),
                                                  Turn("gpt", HangingText)>>])

\* files whose first or last line holds such a text
HangFiles(m) ==
    UNION {{DirtyFile(m, n, 1, HangLine(m)), DirtyFile(m, n, n, HangLine(m))} :
               n \in 1..MaxLines}

(***************************************************************************)
(* main and process_jsonl                                                  *)
(***************************************************************************)
PipeOff ==
    /\ mode = "single"
    /\ filter_out_complex = FALSE
    /\ input_exists = FALSE
    /\ num_workers = 1
    /\ lines = <<>>
    /\ main_pc = "off"
    /\ total_lines = 0
    /\ next_line = 1
    /\ taskq = <<>>
    /\ worker = <<>>
    /\ resq = <<>>
    /\ cur = <<>>
    /\ f_out = [created |-> FALSE, text |-> <<>>]
    /\ pbar = 0
    /\ consumed = <<>>

\* the command line has been parsed; nothing has run yet
PipeInit ==
    /\ mode \in {"single", "multi"}
    /\ filter_out_complex \in BOOLEAN
    /\ input_exists \in BOOLEAN
    /\ num_workers \in 1..MaxWorkers
    /\ lines \in (IF input_exists THEN InputFiles(mode) ELSE {<<>>})
    /\ main_pc = "start"
    /\ total_lines = 0
    /\ next_line = 1
    /\ taskq = <<>>
    /\ worker = <<>>
    /\ resq = <<>>
    /\ cur = <<>>
    /\ f_out = [created |-> FALSE, text |-> <<>>]
    /\ pbar = 0
    /\ consumed = <<>>

\* as PipeInit, the input may also hold a text on which the Annotator hangs
PipeInitHang ==
    /\ mode \in {"single", "multi"}
    /\ filter_out_complex \in BOOLEAN
    /\ input_exists \in BOOLEAN
    /\ num_workers \in 1..MaxWorkers
    /\ lines \in (IF input_exists THEN InputFiles(mode) \cup HangFiles(mode) ELSE {<<>>})
    /\ main_pc = "start"
    /\ total_lines = 0
    /\ next_line = 1
    /\ taskq = <<>>
    /\ worker = <<>>
    /\ resq = <<>>
    /\ cur = <<>>
    /\ f_out = [created |-> FALSE, text |-> <<>>]
    /\ pbar = 0
    /\ consumed = <<>>

\* variant: the output file is opened before the existence check
StartupErrorAfterOpen ==
    /\ main_pc = "start"
    /\ ~input_exists
    /\ main_pc' = "startup_error"
    /\ f_out' = [created |-> TRUE, text |-> <<>>]
    /\ UNCHANGED <<mode, filter_out_complex, input_exists, num_workers, lines, total_lines,
                   next_line, taskq, worker, resq, cur, pbar, consumed>>
    /\ UNCHANGED scorer_vars

\* main: the existence check
StartupError ==
    /\ main_pc = "start"
    /\ ~input_exists
    /\ main_pc' = "startup_error"
    /\ UNCHANGED <<mode, filter_out_complex, input_exists, num_workers, lines, total_lines,
                   next_line, taskq, worker, resq, cur, f_out, pbar, consumed>>
    /\ UNCHANGED scorer_vars

\* main, then process_jsonl up to the for-loop: files opened, lines counted,
\* f_in rewound, pool and progress bar created
StartRun ==
    /\ main_pc = "start"
    /\ input_exists
    /\ main_pc' = "running"
    /\ f_out' = [created |-> TRUE, text |-> <<>>]
    /\ total_lines' = Len(lines)
    /\ next_line' = 1
    /\ worker' = [w \in 1..num_workers |-> <<>>]
    /\ pbar' = 0
    /\ UNCHANGED <<mode, filter_out_complex, input_exists, num_workers, lines, taskq, resq,
                   cur, consumed>>
    /\ UNCHANGED scorer_vars

ChunkEnd(first) ==
    IF first + CHUNKSIZE - 1 <= Len(lines) THEN first + CHUNKSIZE - 1 ELSE Len(lines)

\* the pool's task handler: the next chunksize lines of f_in become one task batch
DispatchChunk ==
    /\ main_pc = "running"
    /\ next_line <= Len(lines)
    /\ taskq' = Append(taskq, [j \in 1..(ChunkEnd(next_line) - next_line + 1) |->
                                   next_line + j - 1])
    /\ next_line' = ChunkEnd(next_line) + 1
    /\ UNCHANGED <<mode, filter_out_complex, input_exists, num_workers, lines, main_pc,
                   total_lines, worker, resq, cur, f_out, pbar, consumed>>
    /\ UNCHANGED scorer_vars

\* variant: the chunk taken stays in the queue
WorkerTakeNoPop(w) ==
    /\ main_pc = "running"
    /\ worker[w] = <<>>
    /\ taskq /= <<>>
    /\ worker' = [worker EXCEPT ![w] = Head(taskq)]
    /\ UNCHANGED <<mode, filter_out_complex, input_exists, num_workers, lines, main_pc,
                   total_lines, next_line, taskq, resq, cur, f_out, pbar, consumed>>
    /\ UNCHANGED scorer_vars

\* an idle worker takes the oldest waiting chunk
WorkerTake(w) ==
    /\ main_pc = "running"
    /\ worker[w] = <<>>
    /\ taskq /= <<>>
    /\ worker' = [worker EXCEPT ![w] = Head(taskq)]
    /\ taskq' = Tail(taskq)
    /\ UNCHANGED <<mode, filter_out_complex, input_exists, num_workers, lines, main_pc,
                   total_lines, next_line, resq, cur, f_out, pbar, consumed>>
    /\ UNCHANGED scorer_vars

\* every line an input file can hold
AllLines(m) ==
    {json_dumps(SampleObjs(m)[i]) : i \in DOMAIN SampleObjs(m)}
        \cup BadLines(m) \cup {HangLine(m)}

\* process_line tabulated: the outcome of the call for each variant, filter flag
\* and line
ProcessLineOf ==
    [m \in {"single", "multi"} |->
        [filter \in BOOLEAN |->
            [line \in AllLines(m) |-> process_line(m, line, filter)]]]

\* the outcome of the j-th call of the worker's map over a chunk
ChunkOut(chunk, j) ==
    [idx |-> chunk[j],
     out |-> ProcessLineOf[mode][filter_out_complex][lines[chunk[j]]]]

ChunkRaisesAt(chunk, j) == ChunkOut(chunk, j).out.kind = "raise"

\* the map over the chunk reaches a call that does not return
ChunkHangs(chunk) ==
    \E j \in 1..Len(chunk) :
        /\ ChunkOut(chunk, j).out.kind = "hang"
        /\ \A i \in 1..(j - 1) : ~ChunkRaisesAt(chunk, i)

\* the exception of the first call that raises
ChunkFailure(chunk) ==
    LET first == CHOOSE j \in 1..Len(chunk) :
                     /\ ChunkRaisesAt(chunk, j)
                     /\ \A i \in 1..(j - 1) : ~ChunkRaisesAt(chunk, i)
    IN [ok |-> FALSE, items |-> <<>>, exc |-> ChunkOut(chunk, first).out.exc,
        idx |-> chunk[first]]

\* variant: a flag set for a dropped record is still set for the records after
\* it in the chunk
ChunkResultStaleFlag(chunk) ==
    IF \E j \in 1..Len(chunk) : ChunkRaisesAt(chunk, j)
    THEN ChunkFailure(chunk)
    ELSE [ok |-> TRUE,
          items |-> [j \in 1..Len(chunk) |->
                        IF /\ ChunkOut(chunk, j).out.kind = "line"
                           /\ \E i \in 1..(j - 1) : ChunkOut(chunk, i).out.kind = "none"
                        THEN [idx |-> chunk[j],
                              out |-> Skipped(ChunkOut(chunk, j).out.obj)]
                        ELSE ChunkOut(chunk, j)]]

\* what the worker sends back for a chunk: the list of process_line's results, or
\* the exception if one of the calls raised
ChunkResult(chunk) ==
    IF \E j \in 1..Len(chunk) : ChunkRaisesAt(chunk, j)
    THEN ChunkFailure(chunk)
    ELSE [ok |-> TRUE, items |-> [j \in 1..Len(chunk) |-> ChunkOut(chunk, j)]]

\* variant: the newest result is delivered ahead of the ones waiting
WorkerFinishFront(w) ==
    /\ main_pc = "running"
    /\ worker[w] /= <<>>
    /\ ~ChunkHangs(worker[w])
    /\ resq' = <<ChunkResult(worker[w])>> \o resq
    /\ worker' = [worker EXCEPT ![w] = <<>>]
    /\ UNCHANGED <<mode, filter_out_complex, input_exists, num_workers, lines, main_pc,
                   total_lines, next_line, taskq, cur, f_out, pbar, consumed>>
    /\ UNCHANGED scorer_vars

\* variant: a call that does not return is given up on and its record skipped
WorkerFinishTimeout(w) ==
    /\ main_pc = "running"
    /\ worker[w] /= <<>>
    /\ resq' = Append(resq, ChunkResult(worker[w]))
    /\ worker' = [worker EXCEPT ![w] = <<>>]
    /\ UNCHANGED <<mode, filter_out_complex, input_exists, num_workers, lines, main_pc,
                   total_lines, next_line, taskq, cur, f_out, pbar, consumed>>
    /\ UNCHANGED scorer_vars

\* a worker maps process_line over its chunk and delivers the result; a call
\* that does not return keeps the worker in its chunk
WorkerFinish(w) ==
    /\ main_pc = "running"
    /\ worker[w] /= <<>>
    /\ ~ChunkHangs(worker[w])
    /\ resq' = Append(resq, ChunkResult(worker[w]))
    /\ worker' = [worker EXCEPT ![w] = <<>>]
    /\ UNCHANGED <<mode, filter_out_complex, input_exists, num_workers, lines, main_pc,
                   total_lines, next_line, taskq, cur, f_out, pbar, consumed>>
    /\ UNCHANGED scorer_vars

\* variant: the progress bar is updated inside "if result"
WriteResultTickOnWrite(item) ==
    /\ f_out' = IF item.out.kind = "line"
                THEN [f_out EXCEPT !.text = Append(@, item.out.line)]
                ELSE f_out
    /\ pbar' = IF item.out.kind = "line" THEN pbar + 1 ELSE pbar
    /\ consumed' = Append(consumed, item)

\* the body of "for result in pool.imap_unordered(...)" for one result
WriteResult(item) ==
    /\ f_out' = IF item.out.kind = "line"
                THEN [f_out EXCEPT !.text = Append(@, item.out.line)]
                ELSE f_out
    /\ pbar' = pbar + 1
    /\ consumed' = Append(consumed, item)

\* one iteration of the main loop: the next result of the pool, written or not
Consume ==
    /\ main_pc = "running"
    /\ \/ /\ cur /= <<>>
          /\ WriteResult(Head(cur))
          /\ cur' = Tail(cur)
          /\ UNCHANGED <<resq, main_pc>>
       \/ /\ cur = <<>>
          /\ resq /= <<>>
          /\ Head(resq).ok
          /\ WriteResult(Head(resq).items[1])
          /\ cur' = Tail(Head(resq).items)
          /\ resq' = Tail(resq)
          /\ UNCHANGED main_pc
    /\ UNCHANGED <<mode, filter_out_complex, input_exists, num_workers, lines, total_lines,
                   next_line, taskq, worker>>
    /\ UNCHANGED scorer_vars

\* variant: the loop catches the exception and goes on with the next result
AbortSkip ==
    /\ main_pc = "running"
    /\ cur = <<>>
    /\ resq /= <<>>
    /\ ~Head(resq).ok
    /\ resq' = Tail(resq)
    /\ UNCHANGED <<mode, filter_out_complex, input_exists, num_workers, lines, main_pc,
                   total_lines, next_line, taskq, worker, cur, f_out, pbar, consumed>>
    /\ UNCHANGED scorer_vars

\* the next result of the pool is an exception: it is raised in the main loop
Abort ==
    /\ main_pc = "running"
    /\ cur = <<>>
    /\ resq /= <<>>
    /\ ~Head(resq).ok
    /\ main_pc' = "error"
    /\ UNCHANGED <<mode, filter_out_complex, input_exists, num_workers, lines, total_lines,
                   next_line, taskq, worker, resq, cur, f_out, pbar, consumed>>
    /\ UNCHANGED scorer_vars

AllConsumed ==
    /\ next_line > Len(lines)
    /\ taskq = <<>>
    /\ \A w \in DOMAIN worker : worker[w] = <<>>
    /\ resq = <<>>
    /\ cur = <<>>

\* the loop ends, the pool and the files are closed, main prints DONE
Finish ==
    /\ main_pc = "running"
    /\ AllConsumed
    /\ main_pc' = "done"
    /\ UNCHANGED <<mode, filter_out_complex, input_exists, num_workers, lines, total_lines,
                   next_line, taskq, worker, resq, cur, f_out, pbar, consumed>>
    /\ UNCHANGED scorer_vars

(***************************************************************************)
(* Specifications                                                          *)
(***************************************************************************)
Init == PipeInit /\ ScorerIdle

Next ==
    \/ StartupError
    \/ StartRun
    \/ DispatchChunk
    \/ \E w \in DOMAIN worker : WorkerTake(w)
    \/ \E w \in DOMAIN worker : WorkerFinish(w)
    \/ Consume
    \/ Abort
    \/ Finish

Spec == Init /\ [][Next]_vars

\* the main process, the pool's task handler and each worker are operating-system
\* processes or threads of their own: none of them is held back forever while it
\* has a step to take
MainStep == StartupError \/ StartRun \/ Consume \/ Abort \/ Finish

WorkerStep(w) == w \in DOMAIN worker /\ (WorkerTake(w) \/ WorkerFinish(w))

Fairness ==
    /\ WF_vars(MainStep)
    /\ WF_vars(DispatchChunk)
    /\ \A w \in 1..MaxWorkers : WF_vars(WorkerStep(w))

InitFair == PipeInitHang /\ ScorerIdle

SpecFair == InitFair /\ [][Next]_vars /\ Fairness

InitScorer == ScorerInit /\ PipeOff

NextScorer ==
    \/ ScorerScan /\ UNCHANGED pipe_vars
    \/ ScorerReturn /\ UNCHANGED pipe_vars

SpecScorer == InitScorer /\ [][NextScorer]_vars

(***************************************************************************)
(* What the claims speak of, stated on the Annotator's output directly.    *)
(***************************************************************************)
RECURSIVE SumOver(_, _, _)
SumOver(F(_), lo, hi) == IF lo > hi THEN 0 ELSE F(lo) + SumOver(F, lo + 1, hi)

PassiveMarker(t) == t.dep_ = "nsubjpass" \/ t.dep_ = "auxpass"

QualifyingParticiple(t) ==
    /\ t.tag_ = "VBG" \/ t.tag_ = "VBN"
    /\ t.dep_ = "ROOT" \/ t.dep_ = "advcl" \/ t.dep_ = "acl"

NestedClause(t) ==
    t.dep_ = "ccomp" \/ t.dep_ = "xcomp" \/ t.dep_ = "advcl" \/ t.dep_ = "relcl"

SentenceHasPassive(sent) == \E i \in DOMAIN sent : PassiveMarker(sent[i])

ParticipleCount(sent) ==
    LET one(i) == IF QualifyingParticiple(sent[i]) THEN 1 ELSE 0
    IN SumOver(one, 1, Len(sent))

ClauseCount(sent) ==
    LET one(i) == IF NestedClause(sent[i]) THEN 1 ELSE 0
    IN SumOver(one, 1, Len(sent))

Excess(count) == IF count > 2 THEN count - 2 ELSE 0

\* over the first n sentences of d
AnyPassive(d, n) == \E k \in 1..n : SentenceHasPassive(d[k])

PassivePart(d, n) == IF AnyPassive(d, n) THEN 1 ELSE 0

ParticipleExcess(d, n) ==
    LET one(k) == Excess(ParticipleCount(d[k]))
    IN SumOver(one, 1, n)

ClauseExcess(d, n) ==
    LET one(k) == Excess(ClauseCount(d[k]))
    IN SumOver(one, 1, n)

NumOver(d, n, Count(_)) ==
    LET one(k) == IF Count(d[k]) > 2 THEN 1 ELSE 0
    IN SumOver(one, 1, n)

NumPassiveReasons(reasons) ==
    LET one(k) == IF reasons[k] = "Contains passive voice" THEN 1 ELSE 0
    IN SumOver(one, 1, Len(reasons))

\* C5: for every text, the empty one included, the score is never negative
\* after any sentence, and the returned analysis has is_complex exactly when
\* its score is positive.
C5_ScoreSign ==
    /\ spc \in {"loop", "returned"} => analysis.score >= 0
    /\ spc = "returned" => (analysis.is_complex <=> analysis.score > 0)

C5_Witness ==
    /\ spc = "returned"
    /\ Len(doc) >= 2
    /\ analysis.score > 0
    /\ analysis.is_complex

\* C6: passive voice counts once per text.  After any number of sentences the
\* flag is set exactly when one of them held a passive marker, the reasons
\* hold exactly one passive entry then (none otherwise) and the score holds
\* exactly 1 for it; once set the flag stays set, and a later sentence with a
\* passive marker adds to score and reasons only what its participles and
\* clauses add.
C6_Counted ==
    spc \in {"loop", "returned"} =>
        /\ analysis.has_passive_voice <=> AnyPassive(doc, si)
        /\ NumPassiveReasons(analysis.reasons) = PassivePart(doc, si)
        /\ analysis.score - ParticipleExcess(doc, si) - ClauseExcess(doc, si)
               = PassivePart(doc, si)

C6_Kept ==
    analysis.has_passive_voice =>
        /\ analysis'.has_passive_voice
        /\ NumPassiveReasons(analysis'.reasons) = 1
        /\ si' = si + 1 =>
               /\ analysis'.score = analysis.score
                      + Excess(ParticipleCount(doc[si'])) + Excess(ClauseCount(doc[si']))
               /\ \A k \in 1..Len(analysis.reasons) :
                      analysis'.reasons[k] = analysis.reasons[k]
               /\ \A k \in (Len(analysis.reasons) + 1)..Len(analysis'.reasons) :
                      analysis'.reasons[k] /= "Contains passive voice"

\* C6: passive voice is counted once per text (C6_Counted in every state)
\* and, once counted, is never counted again or reset (C6_Kept on every step).
C6_PassiveOnce == [](C6_Counted) /\ [][C6_Kept]_vars

C6_Witness ==
    /\ spc = "returned"
    /\ Len(doc) = 3
    /\ SentenceHasPassive(doc[1])
    /\ SentenceHasPassive(doc[3])
    /\ analysis.has_passive_voice
    /\ analysis.reasons[1] = "Contains passive voice"
    /\ NumPassiveReasons(analysis.reasons) = 1

\* C7: the score is 1 for passive voice anywhere, plus per sentence the
\* participles above 2, plus per sentence the nested clauses above 2; every
\* sentence above a cap appends one reason per cap it exceeds.  One sentence
\* of exactly 3 qualifying participles, no passive marker and at most 2 nested
\* clauses gives score 1, one reason, is_complex.
C7_ScoreFormula ==
    /\ spc \in {"loop", "returned"} =>
           /\ analysis.score = PassivePart(doc, si) + ParticipleExcess(doc, si)
                                   + ClauseExcess(doc, si)
           /\ Len(analysis.reasons) = PassivePart(doc, si)
                                          + NumOver(doc, si, ParticipleCount)
                                          + NumOver(doc, si, ClauseCount)
    /\ ( /\ spc = "returned"
         /\ Len(doc) = 1
         /\ ParticipleCount(doc[1]) = 3
         /\ ~SentenceHasPassive(doc[1])
         /\ ClauseCount(doc[1]) <= 2 )
       => /\ analysis.score = 1
          /\ Len(analysis.reasons) = 1
          /\ analysis.is_complex

C7_Witness ==
    /\ spc = "returned"
    /\ Len(doc) = 1
    /\ ParticipleCount(doc[1]) = 3
    /\ ~SentenceHasPassive(doc[1])
    /\ ClauseCount(doc[1]) <= 2
    /\ analysis.score = 1
    /\ analysis.reasons = <<"Too many participle phrases (3) in one sentence">>

(***************************************************************************)
(* What the claims speak of, stated on a run of the pipeline.              *)
(***************************************************************************)
InputObj(k) == lines[consumed[k].idx].obj

OutputObj(k) == consumed[k].out.obj

WasWritten(k) == consumed[k].out.kind = "line"

WasDropped(k) == consumed[k].out.kind = "none"

NumWritten(n) ==
    LET one(k) == IF WasWritten(k) THEN 1 ELSE 0
    IN SumOver(one, 1, n)

NumDropped(n) ==
    LET one(k) == IF WasDropped(k) THEN 1 ELSE 0
    IN SumOver(one, 1, n)

\* the k-th consumed result is a line of the output file
InOutput(k) ==
    /\ WasWritten(k)
    /\ NumWritten(k) <= Len(f_out.text)
    /\ f_out.text[NumWritten(k)] = [ok |-> TRUE, obj |-> OutputObj(k)]

\* the Scorer's score of each text
ScorerScore == [t \in Texts |-> AnalyzeDoc(nlp(t)).score]

RecognizedRole(turn) == turn["from"] = "human" \/ turn["from"] = "gpt"

\* the sum of the Scorer's scores of the turns of a record that are to be scored
TurnScoreSum(obj) ==
    IF "conversations" \in DOMAIN obj
    THEN LET turns == obj["conversations"]
             one(t) == IF RecognizedRole(turns[t]) /\ turns[t]["value"] /= ""
                       THEN ScorerScore[turns[t]["value"]]
                       ELSE 0
         IN SumOver(one, 1, Len(turns))
    ELSE 0

FieldMissing(obj) == "text" \notin DOMAIN obj \/ obj["text"] = ""

\* C1: multi-turn mode, threshold 64: with filtering a record is left out of
\* the output exactly when the scores of its scored turns sum to more than 64;
\* without filtering every record is written.
C1_FilterMulti ==
    mode = "multi" =>
        /\ \A k \in DOMAIN consumed :
               IF filter_out_complex
               THEN WasDropped(k) <=> TurnScoreSum(InputObj(k)) > 64
               ELSE InOutput(k)
        /\ \A r \in DOMAIN resq :
               (~resq[r].ok /\ resq[r].exc = "KeyError")
                   => TurnScoreSum(lines[resq[r].idx].obj) > 64

\* C2: single-field mode, threshold 128: with filtering a record is dropped
\* exactly when its aggregate is above 128 (128 is written, 129 is dropped);
\* without filtering nothing is dropped.  What is not dropped is in the output.
C2_FilterSingle ==
    mode = "single" =>
        \A k \in DOMAIN consumed :
            LET aggregate == OutputObj(k)["total_complexity_score"]
            IN /\ aggregate = IF FieldMissing(InputObj(k)) THEN 0
                              ELSE ScorerScore[InputObj(k)["text"]]
               /\ WasDropped(k) <=> (filter_out_complex /\ aggregate > 128)
               /\ ~WasDropped(k) => InOutput(k)
               /\ Len(f_out.text) = NumWritten(Len(consumed))

C2_Witness ==
    /\ mode = "single"
    /\ filter_out_complex
    /\ \E k \in DOMAIN consumed :
           OutputObj(k)["total_complexity_score"] = 128 /\ InOutput(k)
    /\ \E k \in DOMAIN consumed :
           OutputObj(k)["total_complexity_score"] = 129 /\ WasDropped(k)

\* where the lines read so far are: line indices, in the order consumed, being
\* iterated, delivered, held by a worker, waiting
RECURSIVE Flatten(_)
Flatten(seqs) == IF seqs = <<>> THEN <<>> ELSE Head(seqs) \o Flatten(Tail(seqs))

Indices(items) == [k \in DOMAIN items |-> items[k].idx]

Whereabouts ==
    Indices(consumed) \o Indices(cur)
        \o Flatten([r \in DOMAIN resq |-> Indices(resq[r].items)])
        \o Flatten(worker) \o Flatten(taskq)

NoDuplicate(seq) == \A j, k \in DOMAIN seq : seq[j] = seq[k] => j = k

Range(seq) == {seq[k] : k \in DOMAIN seq}

\* the lines of the consumed results that survived, in the order consumed
RECURSIVE Survivors(_)
Survivors(items) ==
    IF items = <<>> THEN <<>>
    ELSE IF Head(items).out.kind = "line"
         THEN <<Head(items).out.line>> \o Survivors(Tail(items))
         ELSE Survivors(Tail(items))

\* C3: under every interleaving no line is processed twice: a line index is in
\* one place only, and each result consumed is what process_line makes of its
\* line, written or dropped; the output is the surviving results, each once;
\* at completion every one of the N lines has been consumed exactly once, so
\* written + dropped = N.
C3_ExactlyOnce ==
    /\ NoDuplicate(Whereabouts)
    /\ Range(Whereabouts) \subseteq 1..(next_line - 1)
    /\ \A k \in DOMAIN consumed :
           /\ consumed[k].out = process_line(mode, lines[consumed[k].idx], filter_out_complex)
           /\ WasWritten(k) /= WasDropped(k)
    /\ f_out.text = Survivors(consumed)
    /\ main_pc = "done" =>
           /\ Range(Indices(consumed)) = 1..Len(lines)
           /\ Len(consumed) = Len(lines)
           /\ NumWritten(Len(consumed)) + NumDropped(Len(consumed)) = Len(lines)
           /\ Len(f_out.text) = NumWritten(Len(consumed))

C3_Witness ==
    /\ main_pc = "done"
    /\ Len(lines) > CHUNKSIZE
    /\ num_workers >= 2
    /\ consumed[1].idx > CHUNKSIZE
    /\ \E k \in DOMAIN consumed : WasDropped(k)
    /\ \E k \in DOMAIN consumed : InOutput(k)
    /\ NumWritten(Len(consumed)) + NumDropped(Len(consumed)) = Len(lines)

\* C4: one progress tick per result consumed, written or dropped: the progress
\* count is the number written plus the number dropped so far, never above
\* the pre-counted total N, and N once the run has completed.
C4_Progress ==
    /\ pbar = Len(consumed)
    /\ pbar = Len(f_out.text) + NumDropped(Len(consumed))
    /\ main_pc \in {"running", "done", "error"} =>
           /\ total_lines = Len(lines)
           /\ pbar <= total_lines
    /\ main_pc = "done" => pbar = total_lines

C4_Witness ==
    /\ main_pc = "done"
    /\ filter_out_complex
    /\ Len(lines) > CHUNKSIZE
    /\ pbar = total_lines
    /\ pbar = Len(lines)
    /\ NumDropped(Len(consumed)) > 0
    /\ Len(f_out.text) > 0

\* C8: multi-turn mode, a record holding a list of turns: a turn carries an
\* analysis exactly when its role is human or gpt and its value is not empty,
\* the analysis is the Scorer's of that value, the aggregate is the sum of the
\* scores of those turns, and is_complex is aggregate > 64.
C8_TurnsScored ==
    mode = "multi" =>
        \A k \in DOMAIN consumed :
            "conversations" \in DOMAIN InputObj(k) =>
                LET before == InputObj(k)["conversations"]
                    after == OutputObj(k)["conversations"]
                    aggregate == OutputObj(k)["total_conversation_complexity"]
                    one(t) == IF "complexity_analysis" \in DOMAIN after[t]
                              THEN after[t]["complexity_analysis"].score
                              ELSE 0
                IN /\ Len(after) = Len(before)
                   /\ \A t \in DOMAIN before :
                          /\ "complexity_analysis" \in DOMAIN after[t]
                                 <=> (RecognizedRole(before[t]) /\ before[t]["value"] /= "")
                          /\ "complexity_analysis" \in DOMAIN after[t]
                                 => after[t]["complexity_analysis"]
                                        = analyze_complexity(before[t]["value"])
                   /\ aggregate = SumOver(one, 1, Len(after))
                   /\ aggregate = TurnScoreSum(InputObj(k))
                   /\ OutputObj(k)["is_complex"] = (aggregate > 64)

C8_Witness ==
    /\ mode = "multi"
    /\ \E k \in DOMAIN consumed :
           /\ "conversations" \in DOMAIN InputObj(k)
           /\ \E t \in DOMAIN InputObj(k)["conversations"] :
                  /\ InputObj(k)["conversations"][t]["from"] = "system"
                  /\ InputObj(k)["conversations"][t]["value"] /= ""
           /\ \E t \in DOMAIN InputObj(k)["conversations"] :
                  /\ InputObj(k)["conversations"][t]["from"] = "gpt"
                  /\ InputObj(k)["conversations"][t]["value"] = ""
           /\ OutputObj(k)["total_conversation_complexity"] = 64
           /\ ~OutputObj(k)["is_complex"]
    /\ \E k \in DOMAIN consumed :
           /\ "conversations" \in DOMAIN InputObj(k)
           /\ OutputObj(k)["total_conversation_complexity"] = 65
           /\ OutputObj(k)["is_complex"]

\* C9: single-field mode, the field absent or empty: the Scorer is not run
\* (the analysis is not one of the Scorer's, which all carry num_sentences),
\* the stub has score 0, is_complex false and one reason that names the field,
\* the aggregate is 0, the record is not complex, and it is written with and
\* without filtering.
C9_MissingField ==
    mode = "single" =>
        \A k \in DOMAIN consumed :
            FieldMissing(InputObj(k)) =>
                LET stub == OutputObj(k)["complexity_analysis"]
                IN /\ "num_sentences" \notin DOMAIN stub
                   /\ stub.score = 0
                   /\ stub.is_complex = FALSE
                   /\ Len(stub.reasons) = 1
                   /\ stub.reasons[1] = "MISSING FIELD text"
                   /\ OutputObj(k)["total_complexity_score"] = 0
                   /\ OutputObj(k)["is_complex"] = FALSE
                   /\ InOutput(k)

C9_Witness ==
    /\ mode = "single"
    /\ filter_out_complex
    /\ main_pc = "done"
    /\ \E k \in DOMAIN consumed : "text" \notin DOMAIN InputObj(k) /\ InOutput(k)
    /\ \E k \in DOMAIN consumed :
           /\ "text" \in DOMAIN InputObj(k)
           /\ InputObj(k)["text"] = ""
           /\ InOutput(k)

AggregateKey == IF mode = "single" THEN "total_complexity_score"
                ELSE "total_conversation_complexity"

\* C10: every record the enricher has processed, in either mode and whatever
\* its shape, carries an aggregate score and a boolean is_complex, both
\* computed by the enricher from the record's own text.
C10_FlagAndAggregate ==
    \A k \in DOMAIN consumed :
        /\ AggregateKey \in DOMAIN OutputObj(k)
        /\ "is_complex" \in DOMAIN OutputObj(k)
        /\ OutputObj(k)[AggregateKey] =
               IF mode = "single"
               THEN IF FieldMissing(InputObj(k)) THEN 0
                    ELSE ScorerScore[InputObj(k)["text"]]
               ELSE TurnScoreSum(InputObj(k))
        /\ OutputObj(k)["is_complex"] =
               (OutputObj(k)[AggregateKey] > IF mode = "single" THEN 128 ELSE 64)

TokenCount(sent) == Len(sent)

\* the largest Count over the first n sentences of d, 0 when n = 0
MaxOver(d, n, Count(_)) ==
    IF n = 0 THEN 0
    ELSE CHOOSE m \in {Count(d[k]) : k \in 1..n} :
             \A k \in 1..n : m >= Count(d[k])

C16_Equal ==
    spc \in {"loop", "returned"} =>
        /\ analysis.max_nested_clauses = MaxOver(doc, si, ClauseCount)
        /\ analysis.longest_sentence = MaxOver(doc, si, TokenCount)
        /\ analysis.num_participle_phrases = MaxOver(doc, si, ParticipleCount)

C16_NonDecreasing ==
    /\ analysis'.max_nested_clauses >= analysis.max_nested_clauses
    /\ analysis'.longest_sentence >= analysis.longest_sentence
    /\ analysis'.num_participle_phrases >= analysis.num_participle_phrases

\* C16: max_nested_clauses, longest_sentence and num_participle_phrases never
\* decrease from one sentence to the next, and after any number of sentences
\* (all of them, in the returned analysis) each equals the maximum over the
\* sentences read of the clause count, the token count and the qualifying
\* participle count; each is 0 when the text has no sentences.
C16_RunningMaxima == [](C16_Equal) /\ [][C16_NonDecreasing]_vars

C16_Witness ==
    /\ spc = "returned"
    /\ Len(doc) = 3
    /\ ClauseCount(doc[2]) > ClauseCount(doc[3])
    /\ ParticipleCount(doc[1]) > ParticipleCount(doc[3])
    /\ TokenCount(doc[2]) > TokenCount(doc[3])
    /\ analysis.max_nested_clauses = ClauseCount(doc[2])
    /\ analysis.num_participle_phrases = ParticipleCount(doc[1])

\* the reasons sentence k of d appends, in the order of detection
SentenceReasons(d, k) ==
    (IF SentenceHasPassive(d[k]) /\ ~AnyPassive(d, k - 1)
     THEN <<"Contains passive voice">> ELSE <<>>)
    \o (IF ParticipleCount(d[k]) > 2
        THEN <<"Too many participle phrases (" \o ToString(ParticipleCount(d[k]))
                   \o ") in one sentence">>
        ELSE <<>>)
    \o (IF ClauseCount(d[k]) > 2
        THEN <<"Deeply nested clauses (" \o ToString(ClauseCount(d[k]))
                   \o ") in one sentence">>
        ELSE <<>>)

RECURSIVE ReasonsInOrder(_, _)
ReasonsInOrder(d, n) ==
    IF n = 0 THEN <<>> ELSE ReasonsInOrder(d, n - 1) \o SentenceReasons(d, n)

C20_State ==
    spc \in {"loop", "returned"} =>
        /\ analysis.score >= Len(analysis.reasons)
        /\ analysis.reasons = ReasonsInOrder(doc, si)
        /\ spc = "returned" => (analysis.is_complex <=> analysis.reasons /= <<>>)

C20_Step ==
    LET appended == Len(analysis'.reasons) - Len(analysis.reasons)
        increase == analysis'.score - analysis.score
    IN /\ appended >= 0
       /\ increase >= appended
       /\ increase > 0 => appended >= 1

\* C20: every step that appends reasons raises the score by at least 1 per
\* reason and the score rises only on a step that appends a reason, so the
\* score is never below the number of reasons; the returned is_complex is
\* true exactly when the reasons are not empty; the reasons stand in the
\* order of detection: sentences in text order and, within a sentence,
\* passive voice, then participles, then clauses.
C20_ReasonsAndScore == [](C20_State) /\ [][C20_Step]_vars

C20_Witness ==
    /\ spc = "returned"
    /\ Len(doc) >= 2
    /\ Len(SentenceReasons(doc, 1)) >= 1
    /\ Len(SentenceReasons(doc, 2)) = 3
    /\ Len(analysis.reasons) >= 4
    /\ analysis.score > Len(analysis.reasons)

\* the aggregate of the k-th consumed record, from the Scorer's scores
AggregateOf(k) ==
    IF mode = "single"
    THEN IF FieldMissing(InputObj(k)) THEN 0 ELSE ScorerScore[InputObj(k)["text"]]
    ELSE TurnScoreSum(InputObj(k))

DropsByAggregate(k) ==
    filter_out_complex /\ AggregateOf(k) > (IF mode = "single" THEN 128 ELSE 64)

DropsByFlag(k) ==
    /\ filter_out_complex
    /\ "is_complex" \in DOMAIN OutputObj(k)
    /\ OutputObj(k)["is_complex"]

\* C11: the two ways of deciding agree on every record and filter flag:
\* dropping when the raw aggregate is above the threshold (single-field) is
\* the same decision as dropping when is_complex is true (multi-turn), and in
\* each mode a record is dropped exactly when filtering is enabled and the
\* is_complex flag on the record is true.
C11_PredicatesAgree ==
    \A k \in DOMAIN consumed :
        /\ DropsByAggregate(k) <=> DropsByFlag(k)
        /\ WasDropped(k) <=> DropsByFlag(k)

\* the results delivered by the pool so far, in the order of delivery
Delivered ==
    Indices(consumed) \o Indices(cur)
        \o Flatten([r \in DOMAIN resq |-> Indices(resq[r].items)])

IsPrefix(s, t) == Len(s) <= Len(t) /\ \A k \in DOMAIN s : s[k] = t[k]

\* what process_line makes of each line of the input, in input order
InputOrderResults ==
    [i \in DOMAIN lines |->
        [idx |-> i, out |-> process_line(mode, lines[i], filter_out_complex)]]

C12_InOrderOfDelivery ==
    /\ IsPrefix(Delivered, Delivered')
    /\ IsPrefix(consumed, consumed')
    /\ IsPrefix(f_out.text, f_out'.text)

\* C12: the writer performs no reordering: results are consumed from the
\* front of what the pool has delivered, deliveries join at the back, the
\* output only grows at its end, and the output is always the consumed
\* (completion) sequence restricted to the surviving records.  (That an order
\* other than the input order is reachable with two workers and more than one
\* batch is the state of C12_Witness.)
C12_CompletionOrder ==
    [](f_out.text = Survivors(consumed)) /\ [][C12_InOrderOfDelivery]_vars

C12_Witness ==
    /\ main_pc = "done"
    /\ num_workers >= 2
    /\ Len(lines) > CHUNKSIZE
    /\ f_out.text = Survivors(consumed)
    /\ f_out.text /= Survivors(InputOrderResults)
    /\ Len(f_out.text) > CHUNKSIZE
    /\ f_out.text[1] = json_dumps(OutputObj(1))
    /\ consumed[1].idx = CHUNKSIZE + 1

SomeLineRaises ==
    \E i \in DOMAIN lines :
        process_line(mode, lines[i], filter_out_complex).kind = "raise"

SomeLineHangs ==
    \E i \in DOMAIN lines :
        process_line(mode, lines[i], filter_out_complex).kind = "hang"

C13_State ==
    /\ main_pc = "done" => ~SomeLineRaises
    /\ main_pc = "error" => SomeLineRaises /\ f_out.text = Survivors(consumed)

C13_Step ==
    /\ main_pc = "error" => main_pc' = "error"
    /\ main_pc' = "error" => f_out' = f_out /\ pbar' = pbar

\* C13: failures are not isolated.  A run over an input in which one line is
\* malformed or makes process_line raise never completes, however many other
\* lines are valid, and ends in the error state; the step into the error
\* state and every step after it leave the output as it was (nothing more is
\* written, what was written stays), and the error state is never left.
C13_NotIsolated ==
    /\ [](C13_State)
    /\ [][C13_Step]_vars
    /\ (main_pc = "start" /\ input_exists /\ SomeLineRaises /\ ~SomeLineHangs)
           ~> (main_pc = "error")

C13_Witness ==
    /\ main_pc = "error"
    /\ Len(lines) > 2 * CHUNKSIZE
    /\ ~lines[Len(lines)].ok
    /\ Len(f_out.text) >= CHUNKSIZE
    /\ Len(consumed) < Len(lines) - 1

CountIn(seq, x) == Cardinality({k \in DOMAIN seq : seq[k] = x})

SameBag(s, t) ==
    /\ Len(s) = Len(t)
    /\ \A x \in Range(s) \cup Range(t) : CountIn(s, x) = CountIn(t, x)

\* the texts scored in an emitted object, each with the analysis it was given
AnalysesIn(obj) ==
    (IF mode = "single" /\ ~FieldMissing(obj)
     THEN {<<obj["text"], obj["complexity_analysis"]>>} ELSE {})
    \cup (IF mode = "multi" /\ "conversations" \in DOMAIN obj
          THEN {<<obj["conversations"][i]["value"],
                  obj["conversations"][i]["complexity_analysis"]>> :
                    i \in {j \in DOMAIN obj["conversations"] :
                              "complexity_analysis" \in DOMAIN obj["conversations"][j]}}
          ELSE {})

AllAnalyses == UNION {AnalysesIn(OutputObj(k)) : k \in DOMAIN consumed}

InFlight == (next_line - 1) - Len(consumed)

\* C15: while the pipeline runs, the records in flight are never more than
\* batch size (10) times the worker count, whatever the number of lines.
C15_BoundedInFlight ==
    main_pc = "running" => InFlight <= 10 * num_workers

\* C17: when the input path does not exist the run can only fail at startup:
\* no pool is created, no line is read or dispatched, no result exists, the
\* output file is neither created nor written, no progress is reported and
\* the run never completes.
C17_MissingInput ==
    ~input_exists =>
        /\ main_pc \in {"start", "startup_error"}
        /\ worker = <<>>
        /\ next_line = 1
        /\ taskq = <<>>
        /\ resq = <<>>
        /\ cur = <<>>
        /\ consumed = <<>>
        /\ ~f_out.created
        /\ f_out.text = <<>>
        /\ pbar = 0
        /\ total_lines = 0

C17_Witness ==
    /\ ~input_exists
    /\ main_pc = "startup_error"
    /\ ~f_out.created

AnalysisFields ==
    {"complexity_analysis", "total_complexity_score", "total_conversation_complexity",
     "is_complex"}

ToBeScored(turn) == RecognizedRole(turn) /\ turn["value"] /= ""

TurnFrame(tin, tout) ==
    /\ DOMAIN tout \subseteq DOMAIN tin \cup {"complexity_analysis"}
    /\ \A key \in DOMAIN tin \ {"complexity_analysis"} :
           key \in DOMAIN tout /\ tout[key] = tin[key]
    /\ ~ToBeScored(tin) => tout = tin

TurnsFrame(tsin, tsout) ==
    /\ Len(tsout) = Len(tsin)
    /\ \A i \in DOMAIN tsin : TurnFrame(tsin[i], tsout[i])

\* C18: enrichment only adds analysis fields.  Every record written has the
\* keys of its input record and no others but the analysis fields
\* (complexity_analysis, the aggregate, is_complex); every other key has the
\* value it had; in multi-turn mode the turns are as many and in the same
\* order, a turn that is not scored is unchanged and a scored turn differs
\* only by its complexity_analysis.
C18_Frame ==
    \A k \in DOMAIN consumed :
        WasWritten(k) =>
            /\ InOutput(k)
            /\ DOMAIN OutputObj(k) \subseteq DOMAIN InputObj(k) \cup AnalysisFields
            /\ \A key \in DOMAIN InputObj(k) \ AnalysisFields :
                   /\ key \in DOMAIN OutputObj(k)
                   /\ IF key = "conversations"
                      THEN TurnsFrame(InputObj(k)[key], OutputObj(k)[key])
                      ELSE OutputObj(k)[key] = InputObj(k)[key]

C18_Witness ==
    /\ mode = "multi"
    /\ \E k \in DOMAIN consumed :
           /\ WasWritten(k)
           /\ InOutput(k)
           /\ "conversations" \in DOMAIN InputObj(k)
           /\ Len(InputObj(k)["conversations"]) = 4
           /\ \E i \in 1..4 : ~ToBeScored(InputObj(k)["conversations"][i])
           /\ \E i \in 1..4 : OutputObj(k)["conversations"][i]
                                  /= InputObj(k)["conversations"][i]
           /\ OutputObj(k)["id"] = InputObj(k)["id"]

C19_Completed ==
    /\ main_pc = "done"
    /\ Len(consumed) = Len(lines)
    /\ pbar = Len(lines)

\* C19: under fair scheduling, a run over an existing input none of whose
\* lines makes process_line raise eventually completes (every result
\* consumed, progress at N, DONE printed) when every Annotator call returns,
\* and never completes when one line holds a text on which the Annotator
\* call does not return.
C19_CompletesIffAllReturn ==
    /\ (main_pc = "start" /\ input_exists /\ ~SomeLineRaises /\ ~SomeLineHangs)
           ~> C19_Completed
    /\ []((~SomeLineRaises /\ SomeLineHangs) => main_pc /= "done")

\* the run is stuck for good: everything else is consumed, one worker is in
\* the call that does not return
C19_Witness ==
    /\ main_pc = "running"
    /\ SomeLineHangs
    /\ ~SomeLineRaises
    /\ Len(lines) > CHUNKSIZE
    /\ next_line > Len(lines)
    /\ taskq = <<>>
    /\ resq = <<>>
    /\ cur = <<>>
    /\ Len(consumed) >= CHUNKSIZE
    /\ pbar < total_lines
    /\ \E w \in DOMAIN worker : worker[w] /= <<>> /\ ChunkHangs(worker[w])

=============================================================================
